---- MODULE Spec2Model ----
(***************************************************************************)
(* State-machine model of open-MaStR's incremental synchronisation         *)
(* (open_mastr/soap_api/prototype_mastr_reflected.py: backfill_basic and   *)
(* retrieve_additional_data) and of its bulk loader                        *)
(* (open_mastr/xml_download/utils_write_sqlite.py).                        *)
(*                                                                         *)
(* Specifications:                                                         *)
(*   Spec        backfill_basic, chunks delivered lazily by the remote     *)
(*   SpecReplay  backfill_basic run twice over the same pages              *)
(*   SpecDrain   retrieve_additional_data over a back-filled request queue *)
(*   SpecLoad    convert_mastr_xml_to_sqlite over an archive               *)
(*   SpecLoadFair  SpecLoad with weak fairness of the loader's steps       *)
(***************************************************************************)
EXTENDS Integers, Sequences, FiniteSets, TLC

\* Python's None / an SQL NULL in a reference column.
None == "None"

(***************************************************************************)
(* Bounds of the model.                                                    *)
(***************************************************************************)
\* Largest DatumLetzeAktualisierung the remote returns.
MaxTime == 2
\* Longest chunk the remote yields.
MaxChunkLen == 2
\* Chunks processed in one behaviour of Spec (caps the request clock).
MaxChunks == 3
\* Longest page sequence of a replayed run.
MaxPages == 2
\* Largest limit / chunksize passed to retrieve_additional_data.
MaxLimit == 4
MaxChunksize == 2
\* Calls of retrieve_additional_data in one behaviour.
MaxDrains == 1
\* Chunks one thread takes in its call of backfill_basic.
MaxWorkerChunks == 1

\* EinheitMastrNummer values the remote returns.
Units == {"U1", "U2"}
Times == 1..MaxTime

(***************************************************************************)
(* MaStRReflected.__init__: the two maps.                                  *)
(***************************************************************************)
orm_map ==
  [wind       |-> [unit_data |-> "WindExtended", eeg_data |-> "WindEeg",
                   permit_data |-> "Permit"],
   solar      |-> [unit_data |-> "SolarExtended", eeg_data |-> "SolarEeg",
                   permit_data |-> "Permit"],
   biomass    |-> [unit_data |-> "BiomassExtended", eeg_data |-> "BiomassEeg",
                   kwk_data |-> "Kwk", permit_data |-> "Permit"],
   combustion |-> [unit_data |-> "CombustionExtended", kwk_data |-> "Kwk",
                   permit_data |-> "Permit"],
   gsgk       |-> [unit_data |-> "GsgkExtended", kwk_data |-> "Kwk",
                   permit_data |-> "Permit"],
   hydro      |-> [unit_data |-> "HydroExtended", permit_data |-> "Permit"],
   nuclear    |-> [unit_data |-> "NuclearExtended", permit_data |-> "Permit"],
   storage    |-> [unit_data |-> "StorageExtended", permit_data |-> "Permit"]]

unit_type_map ==
  [Windeinheit |-> "wind", Solareinheit |-> "solar", Biomasse |-> "biomass",
   Wasser |-> "hydro", Geothermie |-> "gsgk", Verbrennung |-> "combustion",
   Kernenergie |-> "nuclear", Stromspeichereinheit |-> "storage",
   Gasspeichereinheit |-> "gas_storage", Gasverbrauchseinheit |-> "gas_consumer",
   Stromverbrauchseinheit |-> "consumer", Gaserzeugungseinheit |-> "gas_producer"]

\* The keys of download_functions in retrieve_additional_data.
download_functions == {"unit_data", "eeg_data", "kwk_data", "permit_data"}

(***************************************************************************)
(* The remote's basic-unit records.  A payload is the part of a record     *)
(* besides its id and its modification date.                               *)
(***************************************************************************)
Payloads ==
  { [Einheittyp |-> "Windeinheit", EegMastrNummer |-> "E1",
     KwkMastrNummer |-> None, GenMastrNummer |-> "G1"],
    [Einheittyp |-> "Windeinheit", EegMastrNummer |-> None,
     KwkMastrNummer |-> None, GenMastrNummer |-> None],
    [Einheittyp |-> "Biomasse", EegMastrNummer |-> "E1",
     KwkMastrNummer |-> "K1", GenMastrNummer |-> None],
    [Einheittyp |-> "Gasspeichereinheit", EegMastrNummer |-> None,
     KwkMastrNummer |-> None, GenMastrNummer |-> None] }

BasicUnitRow(id, date, p) ==
  [EinheitMastrNummer |-> id, DatumLetzeAktualisierung |-> date,
   Einheittyp |-> p.Einheittyp, EegMastrNummer |-> p.EegMastrNummer,
   KwkMastrNummer |-> p.KwkMastrNummer, GenMastrNummer |-> p.GenMastrNummer]

RemoteUnits(ids, payloads) ==
  { BasicUnitRow(id, d, p) : id \in ids, d \in Times, p \in payloads }

\* The chunks basic_unit_data can yield: 1..MaxChunkLen records, ids may repeat.
ChunksOf(records) ==
  UNION { [1..n -> records] : n \in 1..MaxChunkLen }

Chunks == ChunksOf(RemoteUnits(Units, Payloads))

Range(s) == { s[n] : n \in 1..Len(s) }

(***************************************************************************)
(* State.                                                                  *)
(***************************************************************************)
VARIABLES
  \* the store (db_models tables)
  BasicUnit,                \* rows of basic_units
  AdditionalDataRequested,  \* rows of additional_data_requested
  MissedAdditionalData,     \* additional_data_id -> number of log rows
  DetailTables,             \* rows [table, id, data] of the detail tables
  \* backfill_basic
  pc,                       \* position of the running operation
  clock,                    \* datetime.now(), as a logical clock
  basic_units_chunk,        \* the chunk being processed
  inserted_and_updated,
  new_requests,             \* <<extended_data, eeg_data, kwk_data, permit_data>>
  \* a replayed run
  input,                    \* the pages the remote returns in each run
  pages,                    \* the pages left in the running run
  run,                      \* number of the running (or last) run
  \* backfill_basic, from its call on
  backfill_technology,      \* the argument technology
  date,                     \* the argument date
  technology_list, dates,
  zip_index,                \* position of the loop over zip(technology_list, dates)
  raised,                   \* the exception that left backfill_basic, if any
  \* retrieve_additional_data
  technology, data_type, limit, chunksize,
  units_queried, requested_chunk, missed_units, number_units_merged,
  unit_data,                \* id -> the data the remote returned for it
  drains                    \* calls started so far

storeVars == <<BasicUnit, AdditionalDataRequested, MissedAdditionalData, DetailTables>>
backfillVars == <<clock, basic_units_chunk, inserted_and_updated, new_requests>>
replayVars == <<input, pages, run>>
runVars == <<backfill_technology, date, technology_list, dates, zip_index, raised>>
drainVars == <<technology, data_type, limit, chunksize, units_queried,
               requested_chunk, missed_units, number_units_merged, unit_data,
               drains>>
syncVars == <<storeVars, pc, backfillVars, replayVars, runVars, drainVars>>

\* The bulk loader (utils_write_sqlite.py)
SqlTables == {"solar", "wind"}

VARIABLES
  namelist,                  \* the entries of the archive, in order
  include_tables,
  entry,                     \* position of the for loop in namelist
  lpc,                       \* position of the loader
  df,                        \* the DataFrame being written
  err,                       \* what the caught exception names
  tables,                    \* sql_tablename -> [columns, rows]
  index_for_printed_message,
  schema_changes             \* the ALTER TABLE statements executed, in order

loadVars == <<namelist, include_tables, entry, lpc, df, err, tables,
              index_for_printed_message, schema_changes>>

\* handle_xml_syntax_error
VARIABLES
  data,                      \* the argument data, decoded
  wrong_char_position,
  shift,
  start_char,
  decoded_data,
  rpc                        \* position of the repair

repairVars == <<data, wrong_char_position, shift, start_char, decoded_data, rpc>>

RepairIdle ==
  /\ data = <<>> /\ wrong_char_position = 0 /\ shift = 0 /\ start_char = 0
  /\ decoded_data = <<>> /\ rpc = "idle"

\* An OperationalError whose message has no "has no column named ".
OtherFault == "database is locked"

NoFrame == [table |-> None, columns |-> {}, rows |-> <<>>, bad |-> {}]
Unbound == -1

LoadIdle ==
  /\ namelist = <<>> /\ include_tables = <<>> /\ entry = 0 /\ lpc = "idle"
  /\ df = NoFrame /\ err = None
  /\ tables = [t \in SqlTables |-> [columns |-> {"a"}, rows |-> <<>>]]
  /\ index_for_printed_message = Unbound
  /\ schema_changes = <<>>

\* Two threads of one process, each in a call of backfill_basic, and the
\* module's session that both calls use (lines 16-20).
VARIABLES
  session,                   \* the tables as the session's transaction has them
  workers                    \* thread -> position and locals of its call

workerVars == <<session, workers>>

Threads == {"wind", "biomass"}

\* A thread before its call: no chunk taken, nothing written to the session.
IdleWorker ==
  [pc |-> "idle", chunks |-> 0, new_requests |-> << <<>>, <<>>, <<>>, <<>> >>,
   written_units |-> {}, written_requests |-> {}]

WorkersIdle ==
  /\ session = [BasicUnit |-> {}, AdditionalDataRequested |-> {}]
  /\ workers = [t \in Threads |-> IdleWorker]

vars == <<syncVars, loadVars, repairVars, workerVars>>

(***************************************************************************)
(* backfill_basic, one chunk (lines 214-319).                              *)
(***************************************************************************)
Ids(units) == { units[n].EinheitMastrNummer : n \in 1..Len(units) }

\* The positions 1..Len(s), in order.
Positions(s) == [n \in 1..Len(s) |-> n]

\* Subsequence of s at the positions idx.
SubSeqAt(s, idx) == [k \in 1..Len(idx) |-> s[idx[k]]]

\* (variant of ChunkUnique: the first occurrence of an id stays)
ChunkUniqueKeepFirst(chunk) ==
  LET Keep(n) == \A m \in 1..(n - 1) :
                   chunk[m].EinheitMastrNummer # chunk[n].EinheitMastrNummer
  IN  SubSeqAt(chunk, SelectSeq(Positions(chunk), Keep))

\* Lines 219-224: a unit stays unless its id occurs again later in the chunk.
ChunkUnique(chunk) ==
  LET Keep(n) == \A m \in (n + 1)..Len(chunk) :
                   chunk[m].EinheitMastrNummer # chunk[n].EinheitMastrNummer
  IN  SubSeqAt(chunk, SelectSeq(Positions(chunk), Keep))

\* (variant of CommonIds: no id of the chunk is found in the store)
NoCommonIds(table, unique) == {}

\* Lines 228-229.
CommonIds(table, unique) ==
  { id \in Ids(unique) : \E r \in table : r.EinheitMastrNummer = id }

\* (variant of StoredIsOlder: every stored unit is updated)
StoredWhateverItsDate(table, unit) ==
  \E r \in table : r.EinheitMastrNummer = unit.EinheitMastrNummer

\* (variants of StoredIsOlder: "<=" and ">" in place of "<")
StoredIsOlderOrEqual(table, unit) ==
  \E r \in table : /\ r.EinheitMastrNummer = unit.EinheitMastrNummer
                   /\ r.DatumLetzeAktualisierung <= unit.DatumLetzeAktualisierung

StoredIsNewer(table, unit) ==
  \E r \in table : /\ r.EinheitMastrNummer = unit.EinheitMastrNummer
                   /\ r.DatumLetzeAktualisierung > unit.DatumLetzeAktualisierung

\* Lines 237-240: a stored row of this unit is strictly older.
StoredIsOlder(table, unit) ==
  \E r \in table : /\ r.EinheitMastrNummer = unit.EinheitMastrNummer
                   /\ r.DatumLetzeAktualisierung < unit.DatumLetzeAktualisierung

\* (variant of SessionMerge: the stored row stays)
SessionMergeIgnored(table, unit) == table

\* session.merge(db.BasicUnit(**unit)): insert or overwrite by primary key.
SessionMerge(table, unit) ==
  { r \in table : r.EinheitMastrNummer # unit.EinheitMastrNummer } \cup {unit}

\* Lines 232-245, from position n of the deduplicated chunk on.
RECURSIVE PartitionLoop(_, _, _, _, _, _)
PartitionLoop(unique, common, n, table, ins, upd) ==
  IF n > Len(unique)
  THEN [table |-> table, insert |-> ins, updated |-> upd]
  ELSE LET unit == unique[n]
       IN  IF unit.EinheitMastrNummer \in common
           THEN IF StoredIsOlder(table, unit)
                THEN PartitionLoop(unique, common, n + 1,
                                   SessionMerge(table, unit), ins, Append(upd, unit))
                ELSE PartitionLoop(unique, common, n + 1, table, ins, upd)
           ELSE PartitionLoop(unique, common, n + 1, table, Append(ins, unit), upd)

\* One row of additional_data_requested (lines 258-300).
RequestRow(basic_unit, id, kind, now) ==
  [EinheitMastrNummer |-> basic_unit.EinheitMastrNummer,
   additional_data_id |-> id,
   technology |-> unit_type_map[basic_unit.Einheittyp],
   data_type |-> kind,
   request_date |-> now]

\* Lines 257-265: one unit_data request per unit.
ExtendedData(units, now) ==
  [n \in 1..Len(units) |->
     RequestRow(units[n], units[n].EinheitMastrNummer, "unit_data", now)]

\* Lines 268-301: one request per truthy reference.
EegData(units, now) ==
  LET has(u) == u.EegMastrNummer # None
      us == SelectSeq(units, has)
  IN  [n \in 1..Len(us) |-> RequestRow(us[n], us[n].EegMastrNummer, "eeg_data", now)]

KwkData(units, now) ==
  LET has(u) == u.KwkMastrNummer # None
      us == SelectSeq(units, has)
  IN  [n \in 1..Len(us) |-> RequestRow(us[n], us[n].KwkMastrNummer, "kwk_data", now)]

PermitData(units, now) ==
  LET has(u) == u.GenMastrNummer # None
      us == SelectSeq(units, has)
  IN  [n \in 1..Len(us) |-> RequestRow(us[n], us[n].GenMastrNummer, "permit_data", now)]

\* (variant of DeleteOldRequests: nothing is deleted)
KeepAllRequests(requested, units, now) == requested

\* Lines 304-308: the rows left after the old requests of the units are deleted.
DeleteOldRequests(requested, units, now) ==
  { r \in requested :
      ~ \E n \in 1..Len(units) :
          /\ r.EinheitMastrNummer = units[n].EinheitMastrNummer
          /\ r.technology = unit_type_map[units[n].Einheittyp]
          /\ r.request_date < now }

\* (variant of MergeResult: the new requests are written by the commit that
\* stores the units)
MergeResultWithRequests(table, requested, chunk, now) ==
  LET unique == ChunkUnique(chunk)
      common == CommonIds(table, unique)
      part   == PartitionLoop(unique, common, 1, table, <<>>, <<>>)
      iau    == part.insert \o part.updated
  IN  [BasicUnit |-> part.table \cup Range(part.insert),
       inserted_and_updated |-> iau,
       new_requests |-> << ExtendedData(iau, now), EegData(iau, now),
                           KwkData(iau, now), PermitData(iau, now) >>,
       AdditionalDataRequested |->
         DeleteOldRequests(requested, iau, now)
           \cup Range(ExtendedData(iau, now)) \cup Range(EegData(iau, now))]

\* Lines 214-311 as a function of the session's tables, the chunk and now():
\* dedup, partition, write basic units, build the requests, delete old ones.
MergeResult(table, requested, chunk, now) ==
  LET unique == ChunkUnique(chunk)
      common == CommonIds(table, unique)
      part   == PartitionLoop(unique, common, 1, table, <<>>, <<>>)
      iau    == part.insert \o part.updated
  IN  [BasicUnit |-> part.table \cup Range(part.insert),
       inserted_and_updated |-> iau,
       new_requests |-> << ExtendedData(iau, now), EegData(iau, now),
                           KwkData(iau, now), PermitData(iau, now) >>,
       AdditionalDataRequested |-> DeleteOldRequests(requested, iau, now)]

\* Lines 314-317: the rows the four bulk inserts add.
InsertNewRequests(requested, lists) ==
  requested \cup Range(lists[1]) \cup Range(lists[2])
            \cup Range(lists[3]) \cup Range(lists[4])

NoRequests == << <<>>, <<>>, <<>>, <<>> >>

\* Lines 214-311 on the session, up to the first commit.
MergeChunk(chunk) ==
  LET m == MergeResult(BasicUnit, AdditionalDataRequested, chunk, clock)
  IN  /\ basic_units_chunk' = chunk
      /\ BasicUnit' = m.BasicUnit
      /\ inserted_and_updated' = m.inserted_and_updated
      /\ new_requests' = m.new_requests
      /\ AdditionalDataRequested' = m.AdditionalDataRequested
      /\ clock' = clock + 1

\* Lines 313-319: bulk-insert the four request lists, commit.  The chunk's
\* locals are dead once its requests are committed.
SubmitRequests ==
  /\ AdditionalDataRequested' = InsertNewRequests(AdditionalDataRequested, new_requests)
  /\ new_requests' = NoRequests
  /\ basic_units_chunk' = <<>>
  /\ inserted_and_updated' = <<>>

(***************************************************************************)
(* Spec: backfill_basic with the remote yielding chunks one at a time.     *)
(***************************************************************************)
NoMissed == [id \in {} |-> 0]
NoData == [id \in {} |-> 0]

IdleDrainVars ==
  /\ technology = None /\ data_type = None /\ limit = 0 /\ chunksize = 0
  /\ units_queried = 0 /\ requested_chunk = {} /\ missed_units = {}
  /\ number_units_merged = 0 /\ unit_data = NoData /\ drains = 0

EmptyStore ==
  /\ BasicUnit = {} /\ AdditionalDataRequested = {}
  /\ MissedAdditionalData = NoMissed /\ DetailTables = {}

\* The arguments technology and date of backfill_basic, tagged with their
\* Python type.  NoDate stands for None where a date is expected.
NoDate == 0
NoTechnology == [kind |-> "None", value |-> <<>>]
DateNone == [kind |-> "None", at |-> NoDate]
DateLatest == [kind |-> "latest", at |-> NoDate]

IdleRunVars ==
  /\ backfill_technology = NoTechnology /\ date = DateNone
  /\ technology_list = <<>> /\ dates = <<>> /\ zip_index = 0 /\ raised = None

IdleBackfillVars ==
  /\ clock = 1 /\ basic_units_chunk = <<>> /\ inserted_and_updated = <<>>
  /\ new_requests = NoRequests

Init ==
  /\ EmptyStore
  /\ pc = "idle"
  /\ IdleBackfillVars
  /\ input = <<>> /\ pages = <<>> /\ run = 0
  /\ IdleDrainVars
  /\ IdleRunVars
  /\ LoadIdle
  /\ RepairIdle
  /\ WorkersIdle

\* Line 210: basic_unit_data is called, the chunk loop begins.
BackfillStart ==
  /\ pc = "idle"
  /\ pc' = "fetch"
  /\ run' = 1
  /\ UNCHANGED <<storeVars, backfillVars, input, pages, drainVars, runVars, loadVars,
                 repairVars, workerVars>>

\* Lines 214-311 on the next chunk of the generator.
BackfillChunk ==
  /\ pc = "fetch"
  /\ clock <= MaxChunks
  /\ \E chunk \in Chunks : MergeChunk(chunk)
  /\ pc' = "submit"
  /\ UNCHANGED <<MissedAdditionalData, DetailTables, replayVars, drainVars, runVars,
                 loadVars, repairVars, workerVars>>

\* Lines 313-319.
BackfillSubmit ==
  /\ pc = "submit"
  /\ SubmitRequests
  /\ pc' = "fetch"
  /\ UNCHANGED <<BasicUnit, MissedAdditionalData, DetailTables, clock,
                 replayVars, drainVars, runVars, loadVars, repairVars, workerVars>>

\* Lines 320-321: the generator is exhausted, session.close().
BackfillEnd ==
  /\ pc = "fetch"
  /\ pc' = "idle"
  /\ UNCHANGED <<storeVars, backfillVars, replayVars, drainVars, runVars, loadVars,
                 repairVars, workerVars>>


Next == BackfillStart \/ BackfillChunk \/ BackfillSubmit \/ BackfillEnd

Spec == Init /\ [][Next]_vars

(***************************************************************************)
(* SpecReplay: backfill_basic called twice, the remote returning the same  *)
(* pages both times.  The store the first call finds is the one an earlier *)
(* backfill of one chunk (or of none) left.                                *)
(***************************************************************************)
ReplayPayloads ==
  { p \in Payloads : p.Einheittyp \in {"Windeinheit", "Biomasse"}
                     /\ p.EegMastrNummer # None }

ReplayChunks == ChunksOf(RemoteUnits(Units, ReplayPayloads))

PriorChunks == { c \in ReplayChunks : Len(c) = 1 } \cup { <<>> }

ReplayInit ==
  /\ \E prior \in PriorChunks :
       LET m == MergeResult({}, {}, prior, 1)
       IN  /\ BasicUnit = m.BasicUnit
           /\ AdditionalDataRequested =
                InsertNewRequests(m.AdditionalDataRequested, m.new_requests)
  /\ MissedAdditionalData = NoMissed /\ DetailTables = {}
  /\ pc = "idle"
  /\ clock = 2 /\ basic_units_chunk = <<>> /\ inserted_and_updated = <<>>
  /\ new_requests = NoRequests
  /\ input = <<>> /\ pages = <<>> /\ run = 0
  /\ IdleDrainVars
  /\ IdleRunVars
  /\ LoadIdle
  /\ RepairIdle
  /\ WorkersIdle

\* Line 210, first and second call: the second is given the first one's pages.
ReplayStart ==
  /\ pc = "idle"
  /\ run < 2
  /\ run' = run + 1
  /\ pages' = input
  /\ pc' = "fetch"
  /\ UNCHANGED <<storeVars, backfillVars, input, drainVars, runVars, loadVars,
                 repairVars, workerVars>>

\* Lines 214-311, first call: the remote yields a chunk, which is recorded.
ReplayFetch ==
  /\ pc = "fetch" /\ run = 1
  /\ Len(input) < MaxPages
  /\ \E chunk \in ReplayChunks :
       /\ MergeChunk(chunk)
       /\ input' = Append(input, chunk)
  /\ pc' = "submit"
  /\ UNCHANGED <<MissedAdditionalData, DetailTables, pages, run, drainVars, runVars,
                 loadVars, repairVars, workerVars>>

\* Lines 214-311, second call: the remote yields the recorded chunks in order.
ReplayRefetch ==
  /\ pc = "fetch" /\ run = 2
  /\ pages # <<>>
  /\ MergeChunk(Head(pages))
  /\ pages' = Tail(pages)
  /\ pc' = "submit"
  /\ UNCHANGED <<MissedAdditionalData, DetailTables, input, run, drainVars, runVars,
                 loadVars, repairVars, workerVars>>

\* Lines 320-321: the generator is exhausted.
ReplayEnd ==
  /\ pc = "fetch"
  /\ run = 2 => pages = <<>>
  /\ pc' = "idle"
  /\ UNCHANGED <<storeVars, backfillVars, replayVars, drainVars, runVars, loadVars,
                 repairVars, workerVars>>

ReplayNext == ReplayStart \/ ReplayFetch \/ ReplayRefetch \/ BackfillSubmit \/ ReplayEnd

SpecReplay == ReplayInit /\ [][ReplayNext]_vars

(***************************************************************************)
(* SpecRun: one call backfill_basic(technology, date) from its first line, *)
(* on the store an earlier backfill of one chunk (or of none) left.  Any   *)
(* storage call may raise.                                                 *)
(***************************************************************************)
TechnologyArgs ==
  { NoTechnology,
    [kind |-> "str", value |-> "wind"],
    [kind |-> "list", value |-> <<"wind", "biomass">>],
    [kind |-> "list", value |-> <<"gas_storage", "wind">>] }

DateArgs == { DateNone, DateLatest } \cup { [kind |-> "datetime", at |-> t] : t \in Times }

Technologies == { unit_type_map[k] : k \in DOMAIN unit_type_map }

\* Line 164
reversed_unit_type_map ==
  [t \in Technologies |-> CHOOSE k \in DOMAIN unit_type_map : unit_type_map[k] = t]

\* Lines 167-172
TechnologyList(arg) ==
  IF arg.kind = "str" THEN << arg.value >>
  ELSE IF arg.kind = "None" THEN << None >>
  ELSE arg.value

Max(S) == CHOOSE x \in S : \A y \in S : y <= x

\* Lines 183-185 and 197-201: the newest date of the rows of a unit type, or
\* None.
NewestDate(table, Einheittyp) ==
  LET found == { r.DatumLetzeAktualisierung :
                   r \in { q \in table : q.Einheittyp = Einheittyp } }
  IN  IF found = {} THEN NoDate ELSE Max(found)

\* The orders in which a query can return the elements of S.
Orders(S) ==
  { o \in [1..Cardinality(S) -> S] : \A m, n \in DOMAIN o : o[m] = o[n] => m = n }

\* Lines 189-195: one row per Einheittyp that has rows, with its newest date.
GroupedByEinheittyp(table) ==
  { [technology_list |-> [n \in DOMAIN o |-> unit_type_map[o[n]]],
     dates |-> [n \in DOMAIN o |-> NewestDate(table, o[n])]] :
      o \in Orders({ r.Einheittyp : r \in table }) }

\* Lines 166-203: the technology_list and dates a call can arrive at.
Resolutions(table, technology_arg, date_arg) ==
  LET listed == TechnologyList(technology_arg)
  IN  IF date_arg.kind = "latest"
      THEN IF listed[1] = None
           THEN GroupedByEinheittyp(table)
           ELSE { [technology_list |-> listed,
                   dates |-> [n \in DOMAIN listed |->
                                NewestDate(table, reversed_unit_type_map[listed[n]])]] }
      ELSE { [technology_list |-> listed,
              dates |-> [n \in DOMAIN listed |-> date_arg.at]] }

\* Line 210: the chunks basic_unit_data(tech, limit, date_from) can yield.
RemoteChunks(tech, date_from) ==
  ChunksOf({ u \in RemoteUnits(Units, Payloads) :
               /\ tech # None => unit_type_map[u.Einheittyp] = tech
               /\ u.DatumLetzeAktualisierung > date_from })

HasDistinctIds(chunk) ==
  \A m, n \in 1..Len(chunk) :
    chunk[m].EinheitMastrNummer = chunk[n].EinheitMastrNummer => m = n

RunPriorChunks == { c \in Chunks : HasDistinctIds(c) } \cup { <<>> }

StorageError == "sqlalchemy.exc.SQLAlchemyError"

RunInit ==
  /\ \E prior \in RunPriorChunks :
       LET m == MergeResult({}, {}, prior, 1)
       IN  /\ BasicUnit = m.BasicUnit
           /\ AdditionalDataRequested =
                InsertNewRequests(m.AdditionalDataRequested, m.new_requests)
  /\ MissedAdditionalData = NoMissed /\ DetailTables = {}
  /\ pc = "idle"
  /\ clock = 2 /\ basic_units_chunk = <<>> /\ inserted_and_updated = <<>>
  /\ new_requests = NoRequests
  /\ input = <<>> /\ pages = <<>> /\ run = 0
  /\ IdleRunVars
  /\ IdleDrainVars
  /\ LoadIdle
  /\ RepairIdle
  /\ WorkersIdle

\* Lines 164-206: the call resolves technology_list and dates and enters the
\* loop over them, or returns when there is nothing to loop over.
RunStart ==
  /\ pc = "idle"
  /\ run = 0
  /\ run' = 1
  /\ \E technology_arg \in TechnologyArgs, date_arg \in DateArgs :
       /\ backfill_technology' = technology_arg
       /\ date' = date_arg
       /\ \E res \in Resolutions(BasicUnit, technology_arg, date_arg) :
            /\ technology_list' = res.technology_list
            /\ dates' = res.dates
            /\ zip_index' = 1
            /\ pc' = IF res.technology_list = <<>> THEN "returned" ELSE "fetch"
  /\ UNCHANGED <<storeVars, backfillVars, input, pages, raised, drainVars, loadVars,
                 repairVars, workerVars>>

\* Lines 214-311 on the next chunk of the technology's generator.
RunChunk ==
  /\ pc = "fetch"
  /\ clock <= MaxChunks
  /\ \E chunk \in RemoteChunks(technology_list[zip_index], dates[zip_index]) :
       MergeChunk(chunk)
  /\ pc' = "submit"
  /\ UNCHANGED <<MissedAdditionalData, DetailTables, replayVars, runVars,
                 drainVars, loadVars, repairVars, workerVars>>

\* A storage call of the chunk raises, before the commit at line 311 or
\* before the one at line 319: nothing catches it, it leaves backfill_basic.
RunStorageError ==
  /\ pc \in {"fetch", "submit"}
  /\ raised' = StorageError
  /\ pc' = "raised"
  /\ UNCHANGED <<storeVars, backfillVars, replayVars, backfill_technology, date,
                 technology_list, dates, zip_index, drainVars, loadVars, repairVars,
                 workerVars>>

\* Lines 320-321 and 206: the generator is exhausted; the next technology.
RunEndTechnology ==
  /\ pc = "fetch"
  /\ zip_index' = zip_index + 1
  /\ pc' = IF zip_index = Len(technology_list) THEN "returned" ELSE "fetch"
  /\ UNCHANGED <<storeVars, backfillVars, replayVars, backfill_technology, date,
                 technology_list, dates, raised, drainVars, loadVars, repairVars,
                 workerVars>>

RunNext == RunStart \/ RunChunk \/ BackfillSubmit \/ RunStorageError \/ RunEndTechnology

SpecRun == RunInit /\ [][RunNext]_vars

(***************************************************************************)
(* retrieve_additional_data (lines 323-387).                               *)
(***************************************************************************)
\* Lines 340-342: the requests of the call's technology and data type.
MatchingRequests(requested, tech, kind) ==
  { r \in requested : r.data_type = kind /\ r.technology = tech }

Min(a, b) == IF a < b THEN a ELSE b

\* .limit(chunksize) without ORDER BY: any chunksize of the matching rows, or
\* all of them when there are fewer.  The query is run twice (lines 344 and
\* 374) with no write to the table in between; both runs return the same rows.
LimitedSelections(matching, n) ==
  { sel \in SUBSET matching : Cardinality(sel) = Min(n, Cardinality(matching)) }

\* Line 361: the detail table of the call; a KeyError when the maps have none.
HasDetailTable(tech, kind) ==
  tech \in DOMAIN orm_map /\ kind \in DOMAIN orm_map[tech]

\* The versions of its data the remote can return for an id.
MaxVersions == 2
DetailVersions == 1..MaxVersions

\* The rows of a detail table that have the primary key of row.
SamePrimaryKey(rows, row) ==
  { r \in rows : r.table = row.table /\ r.id = row.id }

\* (variant of MergeUnitData: a plain insert of each returned unit)
InsertUnitData(rows, detail_table, returned) ==
  rows \cup { [table |-> detail_table, id |-> id, data |-> returned[id]] :
                id \in DOMAIN returned }

\* Lines 355-365: session.merge of each returned unit into the detail table,
\* and the commit.
MergeUnitData(rows, detail_table, returned) ==
  LET new == { [table |-> detail_table, id |-> id, data |-> returned[id]] :
                 id \in DOMAIN returned }
  IN  (rows \ UNION { SamePrimaryKey(rows, n) : n \in new }) \cup new

\* Lines 368-370: one log row per missed id.
LogMissed(log, missed) ==
  [id \in DOMAIN log \cup missed |->
     (IF id \in DOMAIN log THEN log[id] ELSE 0) + (IF id \in missed THEN 1 ELSE 0)]

\* Lines 374-376: the selected requests whose id was not missed are deleted.
DeleteRetrieved(requested, selected, missed) ==
  requested \ { r \in selected : r.additional_data_id \notin missed }

\* The argument limit when the caller leaves it out: the default None of
\* line 323.
NoLimit == -1

\* Lines 323-337: the call's arguments, the clamp of chunksize under
\* "if limit:" (None is falsy, the clamp is skipped).
DrainStart ==
  /\ pc = "idle"
  /\ drains < MaxDrains
  /\ \E tech \in { unit_type_map[p.Einheittyp] : p \in Payloads },
        kind \in download_functions,
        lim \in (1..MaxLimit) \cup {NoLimit},
        size \in 1..MaxChunksize :
       /\ technology' = tech
       /\ data_type' = kind
       /\ limit' = lim
       /\ chunksize' = IF lim # NoLimit /\ size > lim THEN lim ELSE size
  /\ units_queried' = 0
  /\ requested_chunk' = {} /\ missed_units' = {} /\ number_units_merged' = 0
  /\ unit_data' = NoData
  /\ drains' = drains + 1
  /\ pc' = "loop"
  /\ UNCHANGED <<storeVars, backfillVars, replayVars, runVars, loadVars, repairVars,
                 workerVars>>

\* Lines 338-365 and 385-387: one iteration up to the commit of the merged
\* detail rows.  The remote resolves some of the ids and reports the others
\* as missed.
DrainFetch ==
  /\ pc = "loop"
  /\ limit # NoLimit
  /\ units_queried < limit
  /\ \E sel \in LimitedSelections(
                  MatchingRequests(AdditionalDataRequested, technology, data_type),
                  chunksize) :
       LET ids == { r.additional_data_id : r \in sel }
       IN  IF sel = {}
           THEN \* nothing requested: number_units_merged stays 0, break
                /\ requested_chunk' = {} /\ missed_units' = {}
                /\ number_units_merged' = 0
                /\ pc' = "idle"
                /\ UNCHANGED <<DetailTables, unit_data>>
           ELSE \E missed \in SUBSET ids :
                  LET fetched == ids \ missed
                  IN  IF fetched # {} /\ ~ HasDetailTable(technology, data_type)
                      THEN \* KeyError on the first fetched row
                           /\ pc' = "error"
                           /\ UNCHANGED <<DetailTables, requested_chunk, unit_data,
                                          missed_units, number_units_merged>>
                      ELSE /\ \E returned \in [fetched -> DetailVersions] :
                                /\ unit_data' = returned
                                /\ DetailTables' =
                                     MergeUnitData(DetailTables,
                                                   orm_map[technology][data_type], returned)
                           /\ requested_chunk' = sel
                           /\ missed_units' = missed
                           /\ number_units_merged' = Cardinality(fetched)
                           /\ pc' = "fetched"
  /\ UNCHANGED <<BasicUnit, AdditionalDataRequested, MissedAdditionalData,
                 backfillVars, replayVars,
                 technology, data_type, limit, chunksize, units_queried, drains,
                 runVars, loadVars, repairVars, workerVars>>

\* Lines 366-387: log the missed ids, delete the retrieved requests, commit,
\* count the ids, and leave the loop when nothing was merged.
DrainCommit ==
  /\ pc = "fetched"
  /\ MissedAdditionalData' = LogMissed(MissedAdditionalData, missed_units)
  /\ AdditionalDataRequested' =
       DeleteRetrieved(AdditionalDataRequested, requested_chunk, missed_units)
  /\ units_queried' = units_queried + Cardinality(requested_chunk)
  /\ pc' = IF number_units_merged = 0 THEN "idle" ELSE "loop"
  /\ unit_data' = NoData
  /\ UNCHANGED <<BasicUnit, DetailTables, backfillVars, replayVars,
                 technology, data_type, limit, chunksize,
                 requested_chunk, missed_units, number_units_merged, drains, runVars,
                 loadVars, repairVars, workerVars>>

\* Line 338 with limit None: "units_queried < limit" compares an int with
\* None, which raises TypeError; nothing catches it.
DrainLimitTypeError ==
  /\ pc = "loop"
  /\ limit = NoLimit
  /\ pc' = "type_error"
  /\ UNCHANGED <<storeVars, backfillVars, replayVars, drainVars, runVars, loadVars,
                 repairVars, workerVars>>

\* Line 338: units_queried has reached the limit.
DrainExit ==
  /\ pc = "loop"
  /\ limit # NoLimit
  /\ units_queried >= limit
  /\ pc' = "idle"
  /\ UNCHANGED <<storeVars, backfillVars, replayVars, drainVars, runVars, loadVars,
                 repairVars, workerVars>>

(***************************************************************************)
(* SpecDrain: retrieve_additional_data on the store a backfill of one      *)
(* chunk of distinct units left.                                           *)
(***************************************************************************)
QueueUnits == <<"U1", "U2", "U3", "U4">>

\* Chunks <<U1>>, <<U1, U2>>, ... with any payloads, all dated 1.
QueueChunks ==
  UNION { { [n \in 1..k |-> BasicUnitRow(QueueUnits[n], 1, f[n])] :
              f \in [1..k -> Payloads] } : k \in 1..Len(QueueUnits) }

DrainInit ==
  /\ \E chunk \in QueueChunks :
       LET m == MergeResult({}, {}, chunk, 1)
       IN  /\ BasicUnit = m.BasicUnit
           /\ AdditionalDataRequested =
                InsertNewRequests(m.AdditionalDataRequested, m.new_requests)
  /\ MissedAdditionalData = NoMissed /\ DetailTables = {}
  /\ pc = "idle"
  /\ clock = 2 /\ basic_units_chunk = <<>> /\ inserted_and_updated = <<>>
  /\ new_requests = NoRequests
  /\ input = <<>> /\ pages = <<>> /\ run = 0
  /\ IdleDrainVars
  /\ IdleRunVars
  /\ LoadIdle
  /\ RepairIdle
  /\ WorkersIdle

DrainNext ==
  DrainStart \/ DrainFetch \/ DrainLimitTypeError \/ DrainCommit \/ DrainExit

SpecDrain == DrainInit /\ [][DrainNext]_vars

(***************************************************************************)
(* The bulk loader (utils_write_sqlite.py).  File names and table keys are *)
(* sequences of characters, so that the code's split() and lower() are     *)
(* modelled by what they do.                                               *)
(***************************************************************************)
UpperCase == <<"A", "B", "C", "D", "E", "F", "G", "H", "I", "J", "K", "L", "M",
               "N", "O", "P", "Q", "R", "S", "T", "U", "V", "W", "X", "Y", "Z">>
LowerCase == <<"a", "b", "c", "d", "e", "f", "g", "h", "i", "j", "k", "l", "m",
               "n", "o", "p", "q", "r", "s", "t", "u", "v", "w", "x", "y", "z">>

\* str.lower()
Lower(s) ==
  [n \in 1..Len(s) |->
     IF \E k \in 1..Len(UpperCase) : UpperCase[k] = s[n]
     THEN LowerCase[CHOOSE k \in 1..Len(UpperCase) : UpperCase[k] = s[n]]
     ELSE s[n]]

\* str.split(sep) for a one-character separator
RECURSIVE Split(_, _)
Split(s, sep) ==
  IF \A n \in 1..Len(s) : s[n] # sep
  THEN << s >>
  ELSE LET k == CHOOSE n \in 1..Len(s) :
                  s[n] = sep /\ \A m \in 1..(n - 1) : s[m] # sep
       IN  << SubSeq(s, 1, k - 1) >> \o Split(SubSeq(s, k + 1, Len(s)), sep)

\* Line 64: file_name.split("_")[0].split(".")[0].lower()
XmlTablename(file_name) == Lower(Split(Split(file_name, "_")[1], ".")[1])

\* Lines 79-82: the file's number is 1, or the file has no number.
IsFirstFile(file_name) ==
  LET parts == Split(Split(file_name, ".")[1], "_")
  IN  parts[Len(parts)] = <<"1">> \/ Len(parts) = 1

Einheitentypen_xml ==
  <<"E", "i", "n", "h", "e", "i", "t", "e", "n", "t", "y", "p", "e", "n", ".", "x",
  "m", "l">>

\* open_mastr.soap_api.orm.tablename_mapping, for the tables of the model:
\* two storable tables and one that is only used for data cleansing.
tablename_mapping ==
  (<<"s", "o", "l", "a", "r">> :> [name |-> "solar", class |-> "Solar",
                                    replace_column_names |-> <<>>])
  @@ (<<"w", "i", "n", "d">> :> [name |-> "wind", class |-> "Wind",
                                  replace_column_names |-> ("x" :> "z")])
  @@ (<<"k", "a", "t", "a", "l", "o", "g">> :> [name |-> None, class |-> None,
                                                replace_column_names |-> <<>>])

\* The entries an archive can hold.
MaxEntries == 2
MaxRows == 2
FileNames ==
  { <<"S", "o", "l", "a", "r", "_", "1", ".", "x", "m", "l">>,
    <<"S", "o", "l", "a", "r", "_", "2", ".", "x", "m", "l">>,
    <<"W", "i", "n", "d", ".", "x", "m", "l">>,
    <<"K", "a", "t", "a", "l", "o", "g", ".", "x", "m", "l">>,
    <<"N", "e", "t", "z", ".", "x", "m", "l">> }
ColumnSets == { {"a"}, {"a", "x"}, {"a", "x", "y"} }
BadValueSets == { {}, {"v"} }
ArchiveEntries ==
  [file_name : FileNames, nrows : 1..MaxRows, columns : ColumnSets, bad : BadValueSets]
\* An archive has no two entries of the same name.
Archives ==
  { a \in UNION { [1..n -> ArchiveEntries] : n \in 1..MaxEntries } :
      \A m, n \in 1..Len(a) : a[m].file_name = a[n].file_name => m = n }
IncludeLists ==
  { << <<"s", "o", "l", "a", "r">>, <<"w", "i", "n", "d">>,
       <<"k", "a", "t", "a", "l", "o", "g">> >>,
    << <<"s", "o", "l", "a", "r">> >> }
\* What a table can hold before the load, from an earlier load.
PriorRows == { <<>>, << "old" >> }

\* Lines 115-117: df.rename(columns=...)
Rename(columns, replace_column_names) ==
  { IF c \in DOMAIN replace_column_names THEN replace_column_names[c] ELSE c :
      c \in columns }

\* Lines 108-117: the frame parsed from entry n of the archive, its columns
\* renamed.
FrameOf(n, sql_tablename, xml_tablename) ==
  [table |-> sql_tablename,
   columns |-> Rename(namelist[n].columns,
                      tablename_mapping[xml_tablename].replace_column_names),
   rows |-> [k \in 1..namelist[n].nrows |-> <<n, k>>],
   bad |-> namelist[n].bad]

\* Line 73: include_tables.count(xml_tablename)
IncludeCount(xml_tablename) ==
  Cardinality({ n \in 1..Len(include_tables) : include_tables[n] = xml_tablename })

\* Line 83: sqlalchemy.delete(table(sql_tablename)) builds a DELETE statement;
\* nothing executes it, so the tables are what they were.
DeleteStatementBuilt(tabs, sql_tablename) == tabs

SyncIdle ==
  /\ EmptyStore /\ pc = "idle" /\ IdleBackfillVars
  /\ input = <<>> /\ pages = <<>> /\ run = 0
  /\ IdleRunVars
  /\ IdleDrainVars

LoadInit ==
  /\ SyncIdle
  /\ RepairIdle
  /\ WorkersIdle
  /\ namelist \in Archives
  /\ include_tables \in IncludeLists
  /\ entry = 1
  /\ lpc = "next"
  /\ df = NoFrame /\ err = None
  /\ \E prior \in PriorRows :
       tables = [t \in SqlTables |-> [columns |-> {"a"}, rows |-> prior]]
  /\ index_for_printed_message = Unbound
  /\ schema_changes = <<>>

\* Lines 62-139: the next entry of the archive, up to the first write.
LoadEntry ==
  /\ lpc = "next"
  /\ entry <= Len(namelist)
  /\ LET file_name == namelist[entry].file_name
         xml_tablename == XmlTablename(file_name)
     IN  IF xml_tablename \notin DOMAIN tablename_mapping
         THEN \* KeyError at line 69
              /\ lpc' = "crashed"
              /\ UNCHANGED <<entry, df, tables, index_for_printed_message>>
         ELSE IF IncludeCount(xml_tablename) = 1
                 /\ tablename_mapping[xml_tablename].class # None
         THEN LET sql_tablename == tablename_mapping[xml_tablename].name
              IN  IF ~ IsFirstFile(file_name) /\ index_for_printed_message = Unbound
                  THEN \* UnboundLocalError at line 91
                       /\ lpc' = "crashed"
                       /\ UNCHANGED <<entry, df, tables, index_for_printed_message>>
                  ELSE /\ tables' = IF IsFirstFile(file_name)
                                    THEN DeleteStatementBuilt(tables, sql_tablename)
                                    ELSE tables
                       /\ index_for_printed_message' =
                            IF IsFirstFile(file_name) THEN 1
                            ELSE index_for_printed_message + 1
                       /\ IF file_name # Einheitentypen_xml
                          THEN /\ df' = FrameOf(entry, sql_tablename, xml_tablename)
                               /\ lpc' = "write"
                               /\ UNCHANGED entry
                          ELSE /\ entry' = entry + 1
                               /\ UNCHANGED <<df, lpc>>
         ELSE /\ entry' = entry + 1
              /\ UNCHANGED <<lpc, df, tables, index_for_printed_message>>
  /\ UNCHANGED <<namelist, include_tables, err, schema_changes, syncVars, repairVars,
                 workerVars>>

\* Lines 139-148: df.to_sql(..., if_exists="append") and what it raises.
LoadWrite ==
  /\ lpc = "write"
  /\ LET t == df.table
         missing == df.columns \ tables[t].columns
     IN  \/ \* the table lacks a column of the frame: OperationalError
            /\ missing # {}
            /\ \E c \in missing : err' = c
            /\ lpc' = "op_error"
            /\ UNCHANGED <<tables, df, entry>>
         \/ \* the store fails for another reason: OperationalError
            /\ err' = OtherFault
            /\ lpc' = "op_error"
            /\ UNCHANGED <<tables, df, entry>>
         \/ \* a value cannot satisfy its column's type: DataError
            /\ missing = {}
            /\ df.bad # {}
            /\ \E v \in df.bad : err' = v
            /\ lpc' = "data_error"
            /\ UNCHANGED <<tables, df, entry>>
         \/ \* the rows are appended; continueloop = False
            /\ missing = {}
            /\ df.bad = {}
            /\ tables' = [tables EXCEPT ![t].rows = @ \o df.rows]
            /\ df' = NoFrame
            /\ err' = None
            /\ entry' = entry + 1
            /\ lpc' = "next"
  /\ UNCHANGED <<namelist, include_tables, index_for_printed_message,
                 schema_changes, syncVars, repairVars, workerVars>>

\* Lines 165-186: add_missing_column_to_table.
LoadAddColumn ==
  /\ lpc = "op_error"
  /\ IF err = OtherFault \/ err \in tables[df.table].columns
     THEN \* IndexError at line 176: the message names no column; or
          \* ALTER TABLE raises "duplicate column name"
          /\ lpc' = "crashed"
          /\ UNCHANGED <<tables, schema_changes>>
     ELSE /\ tables' = [tables EXCEPT ![df.table].columns = @ \cup {err}]
          /\ schema_changes' = Append(schema_changes, <<df.table, err>>)
          /\ lpc' = "write"
  /\ UNCHANGED <<namelist, include_tables, entry, df, err,
                 index_for_printed_message, syncVars, repairVars, workerVars>>

\* Lines 189-192: delete_wrong_xml_entry; the caller's frame is what it was.
LoadDeleteWrongEntry ==
  /\ lpc = "data_error"
  /\ LET replaced == [df EXCEPT !.bad = @ \ {err}]   \* bound to the local df
     IN  df' = df
  /\ lpc' = "write"
  /\ UNCHANGED <<namelist, include_tables, entry, err, tables,
                 index_for_printed_message, schema_changes, syncVars, repairVars,
                 workerVars>>

\* Line 62: the archive has no further entry.
LoadDone ==
  /\ lpc = "next"
  /\ entry > Len(namelist)
  /\ lpc' = "done"
  /\ UNCHANGED <<namelist, include_tables, entry, df, err, tables,
                 index_for_printed_message, schema_changes, syncVars, repairVars,
                 workerVars>>

LoadNext == LoadEntry \/ LoadWrite \/ LoadAddColumn \/ LoadDeleteWrongEntry \/ LoadDone

SpecLoad == LoadInit /\ [][LoadNext]_vars

\* The write-retry loop runs within one entry: archives of one entry.
LoadOneInit == LoadInit /\ Len(namelist) = 1

\* The loader is sequential code: while it has a step to take, it takes one.
SpecLoadFair == LoadOneInit /\ [][LoadNext]_vars /\ WF_vars(LoadNext)

(***************************************************************************)
(* SpecRepair: handle_xml_syntax_error (lines 195-234) on a decoded text   *)
(* and the position the parser's error names.  Indices are Python's: from  *)
(* 0, and from the end of the text when negative.                          *)
(***************************************************************************)
MaxDataLen == 4
\* The second loop can make the text longer; it is followed up to this length.
MaxGrownLen == 6

Characters == {"<", ">", "a"}
Texts == UNION { [1..n -> Characters] : n \in 1..MaxDataLen }

\* s[i] raises IndexError unless -len(s) <= i < len(s)
IndexInRange(s, i) == -Len(s) <= i /\ i < Len(s)

\* s[i]
CharAt(s, i) == IF i >= 0 THEN s[i + 1] ELSE s[Len(s) + i + 1]

\* A slice bound i, as the number of characters before it.
SliceBound(s, i) ==
  IF i < 0 THEN (IF Len(s) + i < 0 THEN 0 ELSE Len(s) + i)
  ELSE (IF i > Len(s) THEN Len(s) ELSE i)

\* s[:i] and s[i:]
SliceTo(s, i) == SubSeq(s, 1, SliceBound(s, i))
SliceFrom(s, i) == SubSeq(s, SliceBound(s, i) + 1, Len(s))

\* Line 230: decoded_data[:start_char] + decoded_data[start_char + 1:]
WithoutCharAt(s, i) == SliceTo(s, i) \o SliceFrom(s, i + 1)

RepairInit ==
  /\ SyncIdle
  /\ LoadIdle
  /\ WorkersIdle
  /\ data \in Texts
  /\ wrong_char_position \in 0..MaxDataLen
  /\ decoded_data = data
  /\ shift = 0 /\ start_char = 0
  /\ rpc = "scan_back"

\* Lines 219-225: one iteration of the first loop.
RepairScanBack ==
  /\ rpc = "scan_back"
  /\ IF ~ IndexInRange(decoded_data, wrong_char_position + shift)
     THEN \* IndexError at line 220
          /\ rpc' = "raised"
          /\ UNCHANGED <<shift, start_char>>
     ELSE IF CharAt(decoded_data, wrong_char_position + shift) = ">"
     THEN /\ start_char' = wrong_char_position + shift + 1
          /\ rpc' = "delete"
          /\ UNCHANGED shift
     ELSE /\ shift' = shift - 1
          /\ UNCHANGED <<start_char, rpc>>
  /\ UNCHANGED <<data, wrong_char_position, decoded_data, syncVars, loadVars, workerVars>>

\* Lines 227-232: one iteration of the second loop; after it, the text is
\* parsed.
RepairDelete ==
  /\ rpc = "delete"
  /\ Len(decoded_data) <= MaxGrownLen
  /\ IF ~ IndexInRange(decoded_data, start_char)
     THEN \* IndexError at line 228
          /\ rpc' = "raised"
          /\ UNCHANGED decoded_data
     ELSE IF CharAt(decoded_data, start_char) = "<"
     THEN /\ rpc' = "parsed"
          /\ UNCHANGED decoded_data
     ELSE /\ decoded_data' = WithoutCharAt(decoded_data, start_char)
          /\ UNCHANGED rpc
  /\ UNCHANGED <<data, wrong_char_position, shift, start_char, syncVars, loadVars,
                 workerVars>>

RepairNext == RepairScanBack \/ RepairDelete

SpecRepair == RepairInit /\ [][RepairNext]_vars

(***************************************************************************)
(* Claims about backfill_basic, checked under Spec.                        *)
(***************************************************************************)
\* The step that processes a chunk up to its first commit / commits its requests.
ChunkMerged == pc = "fetch" /\ pc' = "submit"
ChunkSubmitted == pc = "submit" /\ pc' = "fetch"

RowsOf(table, id) == { r \in table : r.EinheitMastrNummer = id }

LastOccurrence(chunk, id) ==
  chunk[CHOOSE n \in 1..Len(chunk) :
          /\ chunk[n].EinheitMastrNummer = id
          /\ \A m \in (n + 1)..Len(chunk) : chunk[m].EinheitMastrNummer # id]

\* C2, as stated: of two records of a unit with dates t1 < t2 the one with t2
\* is stored afterwards, also when both arrive in the same chunk: after a chunk
\* is merged, the stored row of each of its units is at least as new as every
\* record of that unit in the chunk.
C2_NewestOfChunkStored ==
  [][ChunkMerged =>
       \A n \in 1..Len(basic_units_chunk') :
         \E r \in BasicUnit' :
           /\ r.EinheitMastrNummer = basic_units_chunk'[n].EinheitMastrNummer
           /\ r.DatumLetzeAktualisierung >=
                basic_units_chunk'[n].DatumLetzeAktualisierung]_vars

\* C2, amended: across chunks (of one run or of several) the newer record
\* wins in either order: a stored row is only ever replaced by a strictly
\* newer one, and after a chunk is merged each record that survived the
\* chunk's deduplication is stored if it is strictly newer than the stored row
\* (or the unit is new), and otherwise the stored row stays.
C2_MonotonicMergeAcrossChunks ==
  [][/\ \A r \in BasicUnit :
          \E q \in BasicUnit' :
            /\ q.EinheitMastrNummer = r.EinheitMastrNummer
            /\ (q = r \/ q.DatumLetzeAktualisierung > r.DatumLetzeAktualisierung)
     /\ ChunkMerged =>
          LET unique == ChunkUnique(basic_units_chunk')
          IN  \A n \in 1..Len(unique) :
                LET s   == unique[n]
                    old == RowsOf(BasicUnit, s.EinheitMastrNummer)
                    new == RowsOf(BasicUnit', s.EinheitMastrNummer)
                IN  IF \A r \in old :
                         r.DatumLetzeAktualisierung < s.DatumLetzeAktualisierung
                    THEN new = {s}
                    ELSE new = old]_vars

\* An older record arrived in a later chunk than the newer one: the newer stays.
C2_Witness ==
  /\ pc = "submit"
  /\ Len(basic_units_chunk) = 1
  /\ \E r \in BasicUnit :
       /\ r.EinheitMastrNummer = basic_units_chunk[1].EinheitMastrNummer
       /\ r.DatumLetzeAktualisierung > basic_units_chunk[1].DatumLetzeAktualisierung
  /\ inserted_and_updated = <<>>

\* The (data_type, additional_data_id) pairs a stored unit asks for: its
\* unit_data and one per non-null reference.
FreshRequests(u) ==
  {<<"unit_data", u.EinheitMastrNummer>>}
    \cup (IF u.EegMastrNummer # None THEN {<<"eeg_data", u.EegMastrNummer>>} ELSE {})
    \cup (IF u.KwkMastrNummer # None THEN {<<"kwk_data", u.KwkMastrNummer>>} ELSE {})
    \cup (IF u.GenMastrNummer # None THEN {<<"permit_data", u.GenMastrNummer>>} ELSE {})

\* C4: when the requests of a chunk are committed, every unit the chunk
\* inserted or updated is stored as given and the pending requests of its
\* unit+technology are exactly the fresh set, one row each, with none left
\* over from an earlier version of the unit.
C4_FreshRequestsOnly ==
  [][ChunkSubmitted =>
       \A n \in 1..Len(inserted_and_updated) :
         LET u    == inserted_and_updated[n]
             rows == { r \in AdditionalDataRequested' :
                         /\ r.EinheitMastrNummer = u.EinheitMastrNummer
                         /\ r.technology = unit_type_map[u.Einheittyp] }
         IN  /\ u \in BasicUnit'
             /\ { <<r.data_type, r.additional_data_id>> : r \in rows } = FreshRequests(u)
             /\ Cardinality(rows) = Cardinality(FreshRequests(u))]_vars

\* A unit back-filled as a biomass unit was back-filled again as a wind unit
\* without references: the second chunk wrote the requests of the unit's wind
\* category, next to those of its biomass category.
C4_Witness ==
  /\ pc = "fetch"
  /\ \E u \in BasicUnit :
       /\ u.Einheittyp = "Windeinheit"
       /\ u.EegMastrNummer = None
       /\ \E r \in AdditionalDataRequested :
            /\ r.EinheitMastrNummer = u.EinheitMastrNummer
            /\ r.technology = "wind" /\ r.request_date = 2
       /\ \E r \in AdditionalDataRequested :
            /\ r.EinheitMastrNummer = u.EinheitMastrNummer
            /\ r.technology = "biomass" /\ r.request_date = 1

\* C8: after a chunk is deduplicated every unit id of the chunk occurs exactly
\* once, each survivor is the last record of its id in the chunk, and what the
\* chunk writes to basic_units for an id is that last record (or nothing).
C8_DedupKeepsLast ==
  [][ChunkMerged =>
       LET chunk  == basic_units_chunk'
           unique == ChunkUnique(chunk)
       IN  /\ Ids(unique) = Ids(chunk)
           /\ \A id \in Ids(chunk) :
                Cardinality({ n \in 1..Len(unique) :
                                unique[n].EinheitMastrNummer = id }) = 1
           /\ \A n \in 1..Len(unique) :
                unique[n] = LastOccurrence(chunk, unique[n].EinheitMastrNummer)
           /\ \A n \in 1..Len(inserted_and_updated') :
                LET u == inserted_and_updated'[n]
                IN  /\ u = LastOccurrence(chunk, u.EinheitMastrNummer)
                    /\ RowsOf(BasicUnit', u.EinheitMastrNummer) = {u}
           /\ \A id \in Ids(chunk) :
                \/ RowsOf(BasicUnit', id) = {LastOccurrence(chunk, id)}
                \/ RowsOf(BasicUnit', id) = RowsOf(BasicUnit, id)]_vars

\* A chunk held one id twice with different payloads; the last one is stored.
C8_Witness ==
  /\ pc = "submit"
  /\ Len(basic_units_chunk) = 2
  /\ basic_units_chunk[1].EinheitMastrNummer = basic_units_chunk[2].EinheitMastrNummer
  /\ basic_units_chunk[1] # basic_units_chunk[2]
  /\ inserted_and_updated = <<basic_units_chunk[2]>>
  /\ basic_units_chunk[2] \in BasicUnit
  /\ basic_units_chunk[1] \notin BasicUnit

(***************************************************************************)
(* Claim about a repeated backfill, checked under SpecReplay.              *)
(***************************************************************************)
\* C1: no step of a second backfill over the same pages changes basic_units
\* or additional_data_requested: the storage after the second run is the
\* storage after the first (no row duplicated, no request re-created).
C1_SecondRunChangesNothing ==
  [][run = 2 =>
       /\ BasicUnit' = BasicUnit
       /\ AdditionalDataRequested' = AdditionalDataRequested]_vars

\* Both runs are over; the pages held one unit in two chunks with two dates.
C1_Witness ==
  /\ run = 2 /\ pc = "idle"
  /\ Len(input) = 2
  /\ \E n \in 1..Len(input[1]), m \in 1..Len(input[2]) :
       /\ input[1][n].EinheitMastrNummer = input[2][m].EinheitMastrNummer
       /\ input[1][n].DatumLetzeAktualisierung > input[2][m].DatumLetzeAktualisierung
  /\ Cardinality(BasicUnit) = 2

(***************************************************************************)
(* Claims about retrieve_additional_data, checked under SpecDrain.         *)
(***************************************************************************)
\* The step that ends an iteration: missed ids logged, requests deleted, commit.
IterationCommitted == pc = "fetched" /\ pc' # "fetched"
\* The step that selects requests and passes their ids to the remote.
IdsFetched == pc = "loop" /\ pc' = "fetched"

\* C3: when an iteration is committed every request it selected is gone from
\* additional_data_requested, and exactly one of two holds for its id: the
\* detail row is stored, or the id is in the missed log.
C3_ProcessedRequestGone ==
  [][IterationCommitted =>
       \A r \in requested_chunk :
         /\ r \notin AdditionalDataRequested'
         /\ (\E d \in DetailTables' :
                /\ d.table = orm_map[technology][data_type]
                /\ d.id = r.additional_data_id)
              # (r.additional_data_id \in DOMAIN MissedAdditionalData')]_vars

\* C5: a request whose id the remote reported as missed is not passed to the
\* remote again in the next iteration of the call.
C5_MissedNotFetchedAgain ==
  [][IdsFetched =>
       \A r \in requested_chunk' :
         ~ (r \in requested_chunk /\ r.additional_data_id \in missed_units)]_vars

\* C6: a call whose limit exceeds the queue it found (the limit is larger than
\* the ids it sent plus the requests still there) has stopped only with no
\* request of its technology and data type left.
C6_StopsOnlyWhenEmpty ==
  (/\ pc = "idle" /\ drains > 0
   /\ limit > units_queried
                + Cardinality(MatchingRequests(AdditionalDataRequested,
                                               technology, data_type)))
    => MatchingRequests(AdditionalDataRequested, technology, data_type) = {}

\* C7: the ids one call sends to the remote, summed over its iterations, are
\* at most limit (stated for the calls that were given a limit and in which no
\* id was missed, so that no request is counted twice).
C7_TotalAtMostLimit ==
  (limit # NoLimit /\ DOMAIN MissedAdditionalData = {}) => units_queried <= limit

(***************************************************************************)
(* Claims about the bulk loader, checked under SpecLoad and SpecLoadFair.  *)
(***************************************************************************)
\* C9: no ALTER TABLE is executed twice for the same column of a table, and
\* whenever a write failed because the table lacks a column, the write-retry
\* loop ends: with the rows written, or with an exception that leaves it.
C9_SchemaEvolutionConverges ==
  /\ [](\A m, n \in 1..Len(schema_changes) :
          schema_changes[m] = schema_changes[n] => m = n)
  /\ (lpc = "op_error") ~> (lpc \in {"next", "done", "crashed"})

\* The rows of the archive's entries that are written to table t, in order.
RECURSIVE ArchiveRows(_, _)
ArchiveRows(t, n) ==
  IF n = 0 THEN <<>>
  ELSE LET x == XmlTablename(namelist[n].file_name)
       IN  ArchiveRows(t, n - 1)
           \o (IF /\ x \in DOMAIN tablename_mapping
                  /\ tablename_mapping[x].name = t
                  /\ IncludeCount(x) = 1
               THEN [k \in 1..namelist[n].nrows |-> <<n, k>>]
               ELSE <<>>)

\* C10: when the load is over, a table the archive has entries for holds
\* exactly the rows of these entries, whatever it held before.
C10_TableHoldsExactlyTheArchive ==
  lpc = "done" =>
    \A t \in SqlTables :
      ArchiveRows(t, Len(namelist)) # <<>> =>
        tables[t].rows = ArchiveRows(t, Len(namelist))

\* C11: when a write failed with a DataError, the frame that is resubmitted no
\* longer carries the value the error names, and the write-retry loop ends.
C11_BadValueNeutralized ==
  /\ [][lpc = "data_error" => err \notin df'.bad]_vars
  /\ (lpc = "data_error") ~> (lpc \in {"next", "done", "crashed"})

(***************************************************************************)
(* Further claims about backfill_basic, checked under Spec.                *)
(***************************************************************************)
\* C12: the store, as committed, never holds a unit's row without the requests
\* derived from it: a run stopped at any point leaves each chunk applied as a
\* whole or not at all.
C12_RecordNeverWithoutRequests ==
  \A u \in BasicUnit :
    \A f \in FreshRequests(u) :
      \E r \in AdditionalDataRequested :
        /\ r.EinheitMastrNummer = u.EinheitMastrNummer
        /\ r.technology = unit_type_map[u.Einheittyp]
        /\ <<r.data_type, r.additional_data_id>> = f

(***************************************************************************)
(* Claims about a whole call of backfill_basic, checked under SpecRun.     *)
(***************************************************************************)
\* The technologies a call asks for: the listed ones, or all of them.
AskedFor(technology_arg) ==
  IF technology_arg.kind = "None" THEN Technologies
  ELSE Range(TechnologyList(technology_arg))

CallResolved == pc = "idle" /\ pc' # "idle"

\* C13: a call with date="latest" fetches each technology it is asked for,
\* from the newest DatumLetzeAktualisierung stored for that technology, and
\* without a lower bound when the store has no unit of the technology; also
\* when no technology is given, and on an empty store.
C13_LatestResumesFromNewestStored ==
  [][CallResolved /\ date'.kind = "latest" =>
       \A tech \in AskedFor(backfill_technology') :
         \E k \in DOMAIN technology_list' :
           /\ technology_list'[k] = tech
           /\ dates'[k] = NewestDate(BasicUnit, reversed_unit_type_map[tech])]_vars

(***************************************************************************)
(* Further claims about a chunk of backfill_basic, checked under Spec.     *)
(***************************************************************************)
\* A record is stale when the store has its unit with a date that is not older.
IsStale(table, unit) ==
  \E r \in table :
    /\ r.EinheitMastrNummer = unit.EinheitMastrNummer
    /\ r.DatumLetzeAktualisierung >= unit.DatumLetzeAktualisierung

\* C14: a record that survives the chunk's deduplication and is stale is
\* dropped: neither commit of the chunk changes the unit's row, its requests
\* or the log of missed ids.
C14_StaleRecordHasNoEffect ==
  [][/\ ChunkMerged =>
          LET unique == ChunkUnique(basic_units_chunk')
          IN  \A n \in 1..Len(unique) :
                IsStale(BasicUnit, unique[n]) =>
                  LET id == unique[n].EinheitMastrNummer
                  IN  /\ id \notin Ids(inserted_and_updated')
                      /\ RowsOf(BasicUnit', id) = RowsOf(BasicUnit, id)
                      /\ RowsOf(AdditionalDataRequested', id)
                           = RowsOf(AdditionalDataRequested, id)
                      /\ MissedAdditionalData' = MissedAdditionalData
     /\ ChunkSubmitted =>
          LET unique == ChunkUnique(basic_units_chunk)
          IN  \A n \in 1..Len(unique) :
                LET id == unique[n].EinheitMastrNummer
                IN  id \notin Ids(inserted_and_updated) =>
                      /\ RowsOf(BasicUnit', id) = RowsOf(BasicUnit, id)
                      /\ RowsOf(AdditionalDataRequested', id)
                           = RowsOf(AdditionalDataRequested, id)
                      /\ MissedAdditionalData' = MissedAdditionalData]_vars

\* A chunk of two units was merged: one was inserted or updated, the other
\* was stale, and the requests of the stale one are in the store.
C14_Witness ==
  /\ pc = "submit"
  /\ Len(basic_units_chunk) = 2
  /\ HasDistinctIds(basic_units_chunk)
  /\ Len(inserted_and_updated) = 1
  /\ \E r \in AdditionalDataRequested :
       /\ r.EinheitMastrNummer \in Ids(basic_units_chunk)
       /\ r.EinheitMastrNummer \notin Ids(inserted_and_updated)

(***************************************************************************)
(* Further claim about a whole call of backfill_basic, under SpecRun.      *)
(***************************************************************************)
\* C15: when a storage call of a chunk raises, only that chunk is given up:
\* what earlier chunks committed stays, and the call goes on with the next
\* chunk of the same technology.
C15_StorageErrorAbortsOnlyTheChunk ==
  [][raised' = StorageError =>
       /\ BasicUnit' = BasicUnit
       /\ AdditionalDataRequested' = AdditionalDataRequested
       /\ zip_index' = zip_index
       /\ pc' = "fetch"]_vars

(***************************************************************************)
(* Further claim about retrieve_additional_data, checked under SpecDrain.  *)
(***************************************************************************)
\* C16: when the units the remote returned are merged, the detail table holds
\* for each of their ids one row, with the data just returned, whatever row
\* the id had before; the rows of the other ids stay; and no table ever has
\* two rows of one id.
C16_DetailRowsOverwritten ==
  [][IdsFetched =>
       LET detail_table == orm_map[technology][data_type]
       IN  /\ \A id \in DOMAIN unit_data' :
                { d \in DetailTables' : d.table = detail_table /\ d.id = id }
                  = { [table |-> detail_table, id |-> id, data |-> unit_data'[id]] }
           /\ \A d \in DetailTables :
                (d.table # detail_table \/ d.id \notin DOMAIN unit_data')
                  => d \in DetailTables'
           /\ \A d, e \in DetailTables' :
                (d.table = e.table /\ d.id = e.id) => d = e]_vars

\* Two stored units name one EEG id.  The request of one was retrieved and
\* deleted in an earlier iteration, which stored the id's row; now the request
\* of the other was retrieved, and the id's row was written a second time.
C16_Witness ==
  /\ pc = "fetched"
  /\ data_type = "eeg_data"
  /\ units_queried > 0
  /\ \E u, v \in BasicUnit :
       /\ u.EinheitMastrNummer # v.EinheitMastrNummer
       /\ u.EegMastrNummer # None
       /\ u.EegMastrNummer = v.EegMastrNummer
       /\ u.Einheittyp = v.Einheittyp
       /\ u.EegMastrNummer \in DOMAIN unit_data
       /\ Cardinality({ r \in AdditionalDataRequested :
                          /\ r.data_type = "eeg_data"
                          /\ r.additional_data_id = u.EegMastrNummer }) = 1
       /\ Cardinality({ d \in DetailTables : d.id = u.EegMastrNummer }) = 1

(***************************************************************************)
(* Further claim about backfill_basic, checked under SpecReplay.           *)
(***************************************************************************)
\* C17: the chunks of a run are processed in the order the remote yields
\* them (in the second run: the order of the recorded pages); a request is
\* only written for a unit whose row an earlier commit stored; and no
\* committed store holds a request of a unit that has no row.
C17_RequestsFollowTheirUnit ==
  [][/\ (ChunkMerged /\ run = 2) =>
          /\ basic_units_chunk' = input[Len(input) - Len(pages) + 1]
          /\ Len(pages') = Len(pages) - 1
     /\ \A r \in AdditionalDataRequested' \ AdditionalDataRequested :
          RowsOf(BasicUnit, r.EinheitMastrNummer) # {}
     /\ \A r \in AdditionalDataRequested' :
          RowsOf(BasicUnit', r.EinheitMastrNummer) # {}]_vars

\* The first run stored a unit the store did not have and then wrote its
\* requests; the second run is at the second of the two pages.
C17_Witness ==
  /\ run = 2 /\ pc = "submit"
  /\ Len(input) = 2 /\ Len(pages) = 0
  /\ \E r \in AdditionalDataRequested : r.request_date > 1
  /\ \E u \in BasicUnit :
       \A r \in RowsOf(AdditionalDataRequested, u.EinheitMastrNummer) :
         r.request_date > 1

(***************************************************************************)
(* Claim about handle_xml_syntax_error, checked under SpecRepair.          *)
(***************************************************************************)
\* The number of characters of text up to and including the nearest ">" at
\* or before index k; 0 when there is none.
BoundaryBefore(text, k) ==
  LET at == { n \in 1..Len(text) : n <= k + 1 /\ text[n] = ">" }
  IN  IF at = {} THEN 0 ELSE Max(at)

\* text without its characters b+1 .. b+n
WithoutFragment(text, b, n) ==
  SubSeq(text, 1, b) \o SubSeq(text, b + n + 1, Len(text))

\* C18: all along the repair the text is the given one with one fragment
\* removed, a fragment that begins just after the nearest ">" at or before
\* the error's position (when the text has one) and holds no "<"; and the
\* text that is parsed again is the one in which the fragment reaches the
\* next "<".
C18_RepairRemovesOneFragment ==
  rpc \in {"delete", "parsed"} =>
    LET b == BoundaryBefore(data, wrong_char_position)
    IN  \E n \in 0..Len(data) :
          /\ b + n <= Len(data)
          /\ decoded_data = WithoutFragment(data, b, n)
          /\ \A m \in (b + 1)..(b + n) : data[m] # "<"
          /\ rpc = "parsed" => (b + n < Len(data) /\ data[b + n + 1] = "<")

(***************************************************************************)
(* Further claim about the bulk loader, checked under SpecLoad.            *)
(***************************************************************************)
\* The step that takes the next entry of the archive.
EntryTaken == lpc = "next" /\ entry <= Len(namelist)

\* C19: an entry whose table name has a class in tablename_mapping and is in
\* include_tables goes to the write of its table; every other entry, also one
\* whose table name tablename_mapping does not know, is passed over, nothing
\* is written and the loop is at the next entry.
C19_EntryWrittenIffStorableAndSelected ==
  [][EntryTaken =>
       LET x == XmlTablename(namelist[entry].file_name)
           storable == x \in DOMAIN tablename_mapping
                       /\ tablename_mapping[x].class # None
           selected == x \in Range(include_tables)
       IN  IF storable /\ selected
           THEN /\ lpc' = "write"
                /\ df'.table = tablename_mapping[x].name
                /\ df'.rows = [k \in 1..namelist[entry].nrows |-> <<entry, k>>]
           ELSE /\ lpc' = "next"
                /\ entry' = entry + 1
                /\ tables' = tables]_vars


(***************************************************************************)
(* SpecWorkers: two threads of one process, one in backfill_basic("wind"), *)
(* one in backfill_basic("biomass").  Both calls use the module's one      *)
(* session (lines 16-20), so there is one transaction: what either thread  *)
(* adds is pending in it, and session.commit() by either thread makes all  *)
(* of it durable.  BasicUnit and AdditionalDataRequested are the committed *)
(* tables, session is the tables as the open transaction has them.  A step *)
(* is one thread running from one session call to the next.                *)
(***************************************************************************)
WorkerChunks(t) == { c \in RemoteChunks(t, NoDate) : HasDistinctIds(c) }

WorkersInit ==
  /\ SyncIdle
  /\ LoadIdle
  /\ RepairIdle
  /\ WorkersIdle

\* Line 210: the thread's call reaches its chunk loop.
WorkerStart(t) ==
  /\ workers[t].pc = "idle"
  /\ workers' = [workers EXCEPT ![t].pc = "fetch"]
  /\ UNCHANGED <<syncVars, loadVars, repairVars, session>>

\* Lines 214-308 by thread t: the chunk is merged into the session's tables.
WorkerMergeChunk(t) ==
  /\ workers[t].pc = "fetch"
  /\ workers[t].chunks < MaxWorkerChunks
  /\ \E chunk \in WorkerChunks(t) :
       LET m == MergeResult(session.BasicUnit, session.AdditionalDataRequested,
                            chunk, clock)
       IN  /\ session' = [BasicUnit |-> m.BasicUnit,
                          AdditionalDataRequested |-> m.AdditionalDataRequested]
           /\ workers' =
                [workers EXCEPT
                   ![t].pc = "merged",
                   ![t].chunks = @ + 1,
                   ![t].new_requests = m.new_requests,
                   ![t].written_units =
                      @ \cup (m.BasicUnit \ session.BasicUnit)]
  /\ clock' = clock + 1
  /\ UNCHANGED <<storeVars, pc, basic_units_chunk, inserted_and_updated, new_requests,
                 replayVars, runVars, drainVars, loadVars, repairVars>>

\* Lines 314-317 by thread t: the four bulk inserts, pending in the session.
WorkerInsert(t) ==
  /\ workers[t].pc = "committed"
  /\ LET requested == InsertNewRequests(session.AdditionalDataRequested,
                                        workers[t].new_requests)
     IN  /\ session' = [session EXCEPT !.AdditionalDataRequested = requested]
         /\ workers' =
              [workers EXCEPT
                 ![t].pc = "inserted",
                 ![t].new_requests = NoRequests,
                 ![t].written_requests =
                    @ \cup (requested \ session.AdditionalDataRequested)]
  /\ UNCHANGED <<syncVars, loadVars, repairVars>>

\* session.commit(): the whole transaction of the session becomes durable,
\* whichever thread wrote it.
SessionCommit ==
  /\ BasicUnit' = session.BasicUnit
  /\ AdditionalDataRequested' = session.AdditionalDataRequested
  /\ UNCHANGED session

\* No thread has uncommitted writes after a commit or a close.
NothingPending(w) ==
  [t \in Threads |-> [w[t] EXCEPT !.written_units = {}, !.written_requests = {}]]

\* Line 311 (after the merge) or line 319 (after the bulk inserts) by thread t.
WorkerCommit(t) ==
  /\ workers[t].pc \in {"merged", "inserted"}
  /\ SessionCommit
  /\ workers' =
       NothingPending([workers EXCEPT
                         ![t].pc = IF @ = "merged" THEN "committed" ELSE "fetch"])
  /\ UNCHANGED <<MissedAdditionalData, DetailTables, pc, backfillVars, replayVars,
                 runVars, drainVars, loadVars, repairVars>>

\* Line 320 by thread t: its generator is exhausted, session.close() ends the
\* session's transaction; what is pending in it is rolled back.
WorkerEnd(t) ==
  /\ workers[t].pc = "fetch"
  /\ session' = [BasicUnit |-> BasicUnit,
                 AdditionalDataRequested |-> AdditionalDataRequested]
  /\ workers' = NothingPending([workers EXCEPT ![t].pc = "done"])
  /\ UNCHANGED <<syncVars, loadVars, repairVars>>

WorkersNext ==
  \E t \in Threads :
    \/ WorkerStart(t)
    \/ WorkerMergeChunk(t)
    \/ WorkerCommit(t)
    \/ WorkerInsert(t)
    \/ WorkerEnd(t)

SpecWorkers == WorkersInit /\ [][WorkersNext]_vars

\* Thread t performs a session.commit() in this step.
Commits(t) ==
  \/ workers[t].pc = "merged" /\ workers'[t].pc = "committed"
  \/ workers[t].pc = "inserted" /\ workers'[t].pc = "fetch"

\* C20: a commit issued by one thread makes durable only that thread's
\* writes: no row that another thread has written and not yet committed is in
\* the committed tables after it.
C20_CommitCoversOnlyItsWorker ==
  [][\A t \in Threads :
       Commits(t) =>
         \A v \in Threads \ {t} :
           /\ workers[v].written_units \cap BasicUnit' = {}
           /\ workers[v].written_requests \cap AdditionalDataRequested' = {}]_vars


(***************************************************************************)
(* Claims about the rows backfill_basic inserts, checked under Spec.       *)
(***************************************************************************)
\* C21: no duplicate insert: after every step basic_units has at most one
\* row per EinheitMastrNummer, and the units a chunk inserts or updates hold
\* no EinheitMastrNummer twice, whatever chunks came before.
C21_OneRowPerUnit ==
  [][/\ \A r, q \in BasicUnit' :
          r.EinheitMastrNummer = q.EinheitMastrNummer => r = q
     /\ ChunkMerged => HasDistinctIds(inserted_and_updated')]_vars

\* The second chunk held one id twice, the id was stored by the first chunk,
\* and the store still has one row.
C21_Witness ==
  /\ pc = "submit" /\ clock = 3
  /\ Len(basic_units_chunk) = 2
  /\ ~HasDistinctIds(basic_units_chunk)
  /\ inserted_and_updated # <<>>
  /\ Cardinality(BasicUnit) = 1


(***************************************************************************)
(* The watermark of a unit type is what lines 183-185 query: NewestDate of *)
(* the stored rows of that type, NoDate when there is none.  Dates are     *)
(* above NoDate, so "not lower" covers "not from present to absent".       *)
(***************************************************************************)
UnitTypes == DOMAIN unit_type_map

\* The dates of the records of a unit type among units.
DatesOf(units, Einheittyp) ==
  { units[n].DatumLetzeAktualisierung :
      n \in { k \in 1..Len(units) : units[k].Einheittyp = Einheittyp } }

\* Every unit of units that the table holds has the same type there.
KeepsEinheittyp(table, units) ==
  \A n \in 1..Len(units) :
    \A r \in RowsOf(table, units[n].EinheitMastrNummer) :
      r.Einheittyp = units[n].Einheittyp

\* C22, as stated: no step lowers the watermark of a unit type, and a chunk
\* raises it to the newest date among the chunk's records of that type, so
\* that after a backfill into an empty store it is the newest date fetched.
C22_WatermarkIsNewestFetched ==
  [][\A T \in UnitTypes :
       /\ NewestDate(BasicUnit', T) >= NewestDate(BasicUnit, T)
       /\ ChunkMerged =>
            NewestDate(BasicUnit', T) =
              Max({NewestDate(BasicUnit, T)} \cup DatesOf(basic_units_chunk', T))]_vars

\* C22, amended: a chunk whose units keep the type they are stored with
\* raises the watermark of each type to the newest date among the records of
\* that type that survive the chunk's deduplication (the last occurrence of
\* each id); no other step changes a watermark.
C22_WatermarkIsNewestSurvivor ==
  [][\A T \in UnitTypes :
       IF ChunkMerged
       THEN KeepsEinheittyp(BasicUnit, ChunkUnique(basic_units_chunk')) =>
              NewestDate(BasicUnit', T) =
                Max({NewestDate(BasicUnit, T)}
                      \cup DatesOf(ChunkUnique(basic_units_chunk'), T))
       ELSE NewestDate(BasicUnit', T) = NewestDate(BasicUnit, T)]_vars

\* The second chunk inserted or updated a unit that now carries the watermark
\* of its type, above another stored unit of that type.
C22_Witness ==
  /\ pc = "submit" /\ clock = 3
  /\ \E n \in 1..Len(inserted_and_updated) :
       LET u == inserted_and_updated[n]
       IN  /\ u.DatumLetzeAktualisierung = NewestDate(BasicUnit, u.Einheittyp)
           /\ \E r \in BasicUnit :
                /\ r.Einheittyp = u.Einheittyp
                /\ r.DatumLetzeAktualisierung < u.DatumLetzeAktualisierung


(***************************************************************************)
(* Further claims about retrieve_additional_data, checked under SpecDrain. *)
(***************************************************************************)
\* C23: a call without a limit runs the loop: from the head of the loop its
\* next step is an iteration (requests selected and fetched, or none found),
\* not an error raised before the first iteration.
C23_NoLimitEntersLoop ==
  [][(pc = "loop" /\ limit = NoLimit) => pc' \in {"fetched", "idle", "error"}]_vars


\* C24: every request a backfill stores can be drained: a call of
\* retrieve_additional_data for the technology and data type of a stored
\* request never fails once the remote has returned its data.
C24_DrainNeverFailsAfterFetch ==
  [][(pc = "loop" /\ MatchingRequests(AdditionalDataRequested, technology,
                                      data_type) # {})
       => pc' # "error"]_vars

====
